---- MODULE Spec2Model ----
(***************************************************************************)
(* Frontend of LUCENT AI: the scenario simulation panel                    *)
(* (frontend/src/pages/Vendors.tsx, component SimulationPanel), the request *)
(* helpers of frontend/src/services/api.ts, and the pages that load data:  *)
(* modules/RevenueIntelligence, pages/Products and the vendor list of      *)
(* pages/Vendors.  Each part has its own actions and its own               *)
(* specification; the variables of the other parts stay as they are.       *)
(*                                                                         *)
(* Numbers of the program are JavaScript doubles; the model keeps them as  *)
(* exact fixed-point integers:                                             *)
(*   a lever (multiplier)      is held in thousandths   (1.2  -> 1200)     *)
(*   a money amount            is held in thousandths   (MoneyUnit)        *)
(*   a risk value              is held in 1/10000       (RiskUnit)         *)
(*   a health value            is held in 1/90000       (HealthUnit)       *)
(* 1/90000 is the coarsest unit in which the division by 4.5 of the health *)
(* formula is exact for levers given in thousandths.  The fields of        *)
(* metadata are held as plain integers.                                    *)
(*                                                                         *)
(* The fixed-point results were compared with the double arithmetic of the *)
(* code on every lever combination the model offers: they agree in every   *)
(* field.  They differ only where the exact risk value lies half-way       *)
(* between two tenths (reorder 0.95 gives 6 - 1.25 = 4.75, which the       *)
(* doubles hold as 4.7499...9 and toFixed(1) prints as 4.7): LeverValues,  *)
(* SliderValues and WordingValues hold no such combination.                *)
(***************************************************************************)
EXTENDS Integers, Sequences, FiniteSets, TLC

VARIABLES
    params,         \* useState<SimulationParams>(DEFAULT_PARAMS)
    currentResult,  \* useState<SimulationResult | null>(null)
    loading,        \* useState(false)
    baseResult,     \* useMemo(() => ({...}), [])
    ranWith,        \* history: argument of the latest runLocalSimulation call
    runs,           \* history: number of runs so far, counted up to MaxRuns
    localStorage,         \* the browser's localStorage: key -> item
    location,             \* window.location.href
    calls,                \* services/api.ts: the calls of api, uploadCsv, report.pdf
    revenueIntelligence,  \* modules/RevenueIntelligence: state, effects, requests
    productsPage,         \* pages/Products: state, effects, requests
    vendorsPage           \* pages/Vendors (list of vendors): state

\* The state of the simulation panel, and the state of everything else.
panelVars == <<params, currentResult, loading, baseResult, ranWith, runs>>
appVars ==
    <<localStorage, location, calls, revenueIntelligence, productsPage, vendorsPage>>

vars == <<params, currentResult, loading, baseResult, ranWith, runs,
          localStorage, location, calls, revenueIntelligence, productsPage,
          vendorsPage>>

\* null (a record, so that it compares with the records it stands in for)
Null == [null |-> TRUE]

\* Number of out-of-range lever values the model offers above the sliders.
MaxExtreme == 1

\* The run counter stops counting here.
MaxRuns == 2

LeverUnit == 1000
MoneyUnit == 1000
RiskUnit == 10000
HealthUnit == 90000

Max(a, b) == IF a >= b THEN a ELSE b
Min(a, b) == IF a <= b THEN a ELSE b
Abs(a) == IF a >= 0 THEN a ELSE -a

\* Math.round: the nearest whole multiple of unit, a tie going up (unit is even).
MathRound(x, unit) == ((x + unit \div 2) \div unit) * unit

\* parseFloat(x.toFixed(1)): the nearest multiple of unit/10, a tie going
\* away from zero (unit/10 is even).
ToFixed1(x, unit) ==
    LET step == unit \div 10
        mag  == ((Abs(x) + step \div 2) \div step) * step
    IN  IF x >= 0 THEN mag ELSE -mag

\* v.toFixed(2) of a lever, as text.
ToFixed2Text(v) ==
    LET h  == (Abs(v) + 5) \div 10
        ip == h \div 100
        fr == h % 100
    IN  (IF v < 0 /\ h > 0 THEN "-" ELSE "") \o ToString(ip) \o "."
            \o (IF fr < 10 THEN "0" ELSE "") \o ToString(fr)

\* Array.prototype.join(' ')
RECURSIVE Join(_)
Join(parts) ==
    IF Len(parts) = 0 THEN ""
    ELSE IF Len(parts) = 1 THEN parts[1]
    ELSE parts[1] \o " " \o Join(Tail(parts))

Keys ==
    {"sales_growth_multiplier", "expense_growth_multiplier", "fraud_sensitivity",
     "supplier_delay_factor", "reorder_threshold_multiplier"}

DEFAULT_PARAMS ==
    [sales_growth_multiplier      |-> 1000,
     expense_growth_multiplier    |-> 1000,
     fraud_sensitivity            |-> 1000,
     supplier_delay_factor        |-> 1000,
     reorder_threshold_multiplier |-> 1000]

\* The lever values the model tries: slider positions, and for the two growth
\* levers values far outside the slider range (updateParam and
\* runLocalSimulation accept any number).
LeverValues(key) ==
    CASE key = "sales_growth_multiplier" ->
            {1000, 1004, 1200} \cup {1000 + 1000 * k : k \in 1..MaxExtreme}
      [] key = "expense_growth_multiplier" ->
            {800, 1000, 1300} \cup {1000 + 4000 * k : k \in 1..MaxExtreme}
      [] key = "fraud_sensitivity" -> {1000, 1500}
      [] key = "supplier_delay_factor" -> {800, 1000, 1500}
      [] key = "reorder_threshold_multiplier" -> {1000, 1500}

BaselineExplanation ==
    "Baseline scenario using current health, expense and fraud signals to project revenue, cash and risk over the next four periods."

FallbackExplanation ==
    "Simulation uses current baseline assumptions to project revenue, cash and risk over the next four periods."

BaseResultValue ==
    [new_health_score    |-> 75 * HealthUnit,
     delta_from_base     |-> 0,
     projected_cash      |-> 100000 * MoneyUnit,
     risk_index          |-> 40 * RiskUnit,
     revenue_forecast    |-> << [period |-> "P1", value |-> 80000 * MoneyUnit],
                                [period |-> "P2", value |-> 82500 * MoneyUnit],
                                [period |-> "P3", value |-> 85000 * MoneyUnit],
                                [period |-> "P4", value |-> 87500 * MoneyUnit] >>,
     explanation_summary |-> BaselineExplanation,
     metadata            |-> [base_health_score  |-> 75,
                              base_expense_total |-> 50000,
                              fraud_rate_percent |-> 10]]

(***************************************************************************)
(* runLocalSimulation(p), stage by stage.  Every stage reads the baseline  *)
(* from baseResult.metadata, as the code does.                             *)
(***************************************************************************)
baseHealth == baseResult.metadata.base_health_score
baseExpense == baseResult.metadata.base_expense_total
baseFraud == baseResult.metadata.fraud_rate_percent

\* baseExpense * 1.4, in whole money (exact: baseExpense is a multiple of 5)
baseRevenue0 == (baseExpense * 14) \div 10

\* [0,1,2,3].map(i => baseRevenue0 * (1 + 0.03 * i)), in whole money (exact:
\* baseRevenue0 is a multiple of 100)
baseSeries == [i \in 1..4 |-> (baseRevenue0 * (100 + 3 * (i - 1))) \div 100]

\* A revenue series that ignores the sales lever.
revenueSeriesNoLever(p) == [i \in 1..4 |-> baseSeries[i] * LeverUnit]

\* A revenue series that applies the sales lever the wrong way round.
revenueSeriesInverted(p) ==
    [i \in 1..4 |-> baseSeries[i] * (2 * LeverUnit - p.sales_growth_multiplier)]

\* A revenue series that grows by 3% of the previous period, not of the first.
revenueSeriesCompound(p) ==
    LET p2 == (baseRevenue0 * 103) \div 100
        p3 == (p2 * 103) \div 100
        p4 == (p3 * 103) \div 100
    IN  [i \in 1..4 |->
            <<baseRevenue0, p2, p3, p4>>[i] * p.sales_growth_multiplier]

\* baseSeries.map(v => v * p.sales_growth_multiplier), in MoneyUnit
revenueSeries(p) == [i \in 1..4 |-> baseSeries[i] * p.sales_growth_multiplier]

simulatedExpenseTotal(p) == baseExpense * p.expense_growth_multiplier
revenueSum(p) ==
    revenueSeries(p)[1] + revenueSeries(p)[2] + revenueSeries(p)[3] + revenueSeries(p)[4]
expenseSum(p) == simulatedExpenseTotal(p) * 4
\* A projected cash that is never reported below zero.
projectedCashFloored(p) ==
    Max(0, 100000 * MoneyUnit + revenueSum(p) - expenseSum(p))

projectedCash(p) == 100000 * MoneyUnit + revenueSum(p) - expenseSum(p)

\* baseFraud * (0.6 * p.fraud_sensitivity), in RiskUnit
fraudComponent(p) == baseFraud * 6 * p.fraud_sensitivity
\* An inventory component that measures the levers downwards from neutral.
inventoryComponentInverted(p) ==
    (LeverUnit - p.supplier_delay_factor) * 400
        + (LeverUnit - p.reorder_threshold_multiplier) * 250

\* An inventory component with the two weights exchanged.
inventoryComponentSwapped(p) ==
    (p.supplier_delay_factor - LeverUnit) * 250
        + (p.reorder_threshold_multiplier - LeverUnit) * 400

inventoryComponent(p) ==
    (p.supplier_delay_factor - LeverUnit) * 400
        + (p.reorder_threshold_multiplier - LeverUnit) * 250

\* An expense component with the weight of the supplier-delay term.
expenseComponentWeight40(p) == (p.expense_growth_multiplier - LeverUnit) * 400

expenseComponent(p) == (p.expense_growth_multiplier - LeverUnit) * 600
rawRisk(p) == fraudComponent(p) + inventoryComponent(p) + expenseComponent(p)

\* A risk index without its clamp.
riskIndexUnclamped(p) == rawRisk(p)

riskIndex(p) == Max(0, Min(100 * RiskUnit, rawRisk(p)))

\* A revenue-versus-expense delta with ten times the weight.
revenueVsExpenseDeltaWeight180(p) ==
    (p.sales_growth_multiplier - p.expense_growth_multiplier) * 16200

\* in HealthUnit
revenueVsExpenseDelta(p) ==
    (p.sales_growth_multiplier - p.expense_growth_multiplier) * 1620
\* A risk delta taken from the raw risk instead of the clamped one.
riskDeltaFromRawRisk(p) == -((rawRisk(p) - 40 * RiskUnit) * 2)

riskDelta(p) == -((riskIndex(p) - 40 * RiskUnit) * 2)
\* The supplier term with its sign reversed.
supplierDeltaInverted(p) == (p.supplier_delay_factor - LeverUnit) * 900

supplierDelta(p) == -(p.supplier_delay_factor - LeverUnit) * 900
healthDelta(p) == revenueVsExpenseDelta(p) + riskDelta(p) + supplierDelta(p)
newHealth(p) ==
    Max(0, Min(100 * HealthUnit, baseHealth * HealthUnit + healthDelta(p)))

\* A reported delta taken before the clamp.
deltaFromBaseUnclamped(p) == healthDelta(p)

deltaFromBase(p) == newHealth(p) - baseHealth * HealthUnit

revenueForecast(p) ==
    [i \in 1..4 |->
        [period |-> "P" \o ToString(i),
         value  |-> MathRound(revenueSeries(p)[i], MoneyUnit)]]

\* Math.round((multiplier - 1) * 100), a whole number
Pct(multiplier) == MathRound(multiplier - LeverUnit, 10) \div 10

\* A sales sentence whose 'increased' wording needs pct > 0.
salesSentenceStrict(p) ==
    LET pct == Pct(p.sales_growth_multiplier)
    IN  IF pct > 0
        THEN "Sales growth increased by " \o ToString(pct)
                \o "% which lifts projected revenue across the horizon."
        ELSE "Sales growth reduced by " \o ToString(Abs(pct))
                \o "% which compresses projected revenue."

salesSentence(p) ==
    LET pct == Pct(p.sales_growth_multiplier)
    IN  IF pct >= 0
        THEN "Sales growth increased by " \o ToString(pct)
                \o "% which lifts projected revenue across the horizon."
        ELSE "Sales growth reduced by " \o ToString(Abs(pct))
                \o "% which compresses projected revenue."

expenseSentence(p) ==
    LET pct == Pct(p.expense_growth_multiplier)
    IN  IF pct >= 0
        THEN "Expenses are projected to grow by " \o ToString(pct)
                \o "%, creating additional pressure on cash and health."
        ELSE "Expenses are reduced by " \o ToString(Abs(pct))
                \o "%, supporting stronger cash generation."

\* A fraud sentence with a wording of its own below 1.0.
fraudSentenceDirectional(p) ==
    IF p.fraud_sensitivity >= LeverUnit
    THEN "Fraud sensitivity set to " \o ToFixed2Text(p.fraud_sensitivity)
            \o " changes how strongly fraud findings influence the unified risk index."
    ELSE "Fraud sensitivity lowered to " \o ToFixed2Text(p.fraud_sensitivity)
            \o " weakens how strongly fraud findings influence the unified risk index."

fraudSentence(p) ==
    "Fraud sensitivity set to " \o ToFixed2Text(p.fraud_sensitivity)
        \o " changes how strongly fraud findings influence the unified risk index."

supplySentence ==
    "Supply-chain levers (supplier delays and reorder thresholds) adjust inventory risk and slightly affect overall health."

\* A sentence list that adds the supply-chain sentence once per changed
\* supply-chain lever.
explanationPartsSupplyPerLever(p) ==
    (IF p.sales_growth_multiplier /= LeverUnit THEN <<salesSentence(p)>> ELSE <<>>)
    \o (IF p.expense_growth_multiplier /= LeverUnit THEN <<expenseSentence(p)>> ELSE <<>>)
    \o (IF p.fraud_sensitivity /= LeverUnit THEN <<fraudSentence(p)>> ELSE <<>>)
    \o (IF p.supplier_delay_factor /= LeverUnit THEN <<supplySentence>> ELSE <<>>)
    \o (IF p.reorder_threshold_multiplier /= LeverUnit THEN <<supplySentence>> ELSE <<>>)

explanationParts(p) ==
    (IF p.sales_growth_multiplier /= LeverUnit THEN <<salesSentence(p)>> ELSE <<>>)
    \o (IF p.expense_growth_multiplier /= LeverUnit THEN <<expenseSentence(p)>> ELSE <<>>)
    \o (IF p.fraud_sensitivity /= LeverUnit THEN <<fraudSentence(p)>> ELSE <<>>)
    \o (IF p.supplier_delay_factor /= LeverUnit
           \/ p.reorder_threshold_multiplier /= LeverUnit
        THEN <<supplySentence>> ELSE <<>>)

\* A summary without the fallback sentence.
explanation_summaryNoFallback(p) == Join(explanationParts(p))

\* explanationParts.join(' ') || '<fallback>'
explanation_summary(p) ==
    IF Join(explanationParts(p)) /= "" THEN Join(explanationParts(p))
    ELSE FallbackExplanation

\* A result assembled without rounding the three one-decimal fields.
runLocalSimulationUnrounded(p) ==
    [new_health_score    |-> newHealth(p),
     delta_from_base     |-> deltaFromBase(p),
     projected_cash      |-> MathRound(projectedCash(p), MoneyUnit),
     risk_index          |-> riskIndex(p),
     revenue_forecast    |-> revenueForecast(p),
     explanation_summary |-> explanation_summary(p),
     metadata            |-> baseResult.metadata]

\* A simulation that starts from the health score of the result on display
\* instead of the baseline's.
runLocalSimulationStateful(p) ==
    LET carried == IF currentResult = Null THEN 0
                   ELSE currentResult.new_health_score - baseHealth * HealthUnit
        health  == Max(0, Min(100 * HealthUnit, newHealth(p) + carried))
    IN  [new_health_score    |-> ToFixed1(health, HealthUnit),
         delta_from_base     |-> ToFixed1(health - baseHealth * HealthUnit, HealthUnit),
         projected_cash      |-> MathRound(projectedCash(p), MoneyUnit),
         risk_index          |-> ToFixed1(riskIndex(p), RiskUnit),
         revenue_forecast    |-> revenueForecast(p),
         explanation_summary |-> explanation_summary(p),
         metadata            |-> baseResult.metadata]

\* A simulation that first clamps every lever to its slider range.
runLocalSimulationClamped(p) ==
    LET q == [sales_growth_multiplier      |-> Max(800, Min(1300, p.sales_growth_multiplier)),
              expense_growth_multiplier    |-> Max(800, Min(1300, p.expense_growth_multiplier)),
              fraud_sensitivity            |-> Max(500, Min(1500, p.fraud_sensitivity)),
              supplier_delay_factor        |-> Max(800, Min(1500, p.supplier_delay_factor)),
              reorder_threshold_multiplier |-> Max(500, Min(1500, p.reorder_threshold_multiplier))]
    IN  [new_health_score    |-> ToFixed1(newHealth(q), HealthUnit),
         delta_from_base     |-> ToFixed1(deltaFromBase(q), HealthUnit),
         projected_cash      |-> MathRound(projectedCash(q), MoneyUnit),
         risk_index          |-> ToFixed1(riskIndex(q), RiskUnit),
         revenue_forecast    |-> revenueForecast(q),
         explanation_summary |-> explanation_summary(q),
         metadata            |-> baseResult.metadata]

runLocalSimulation(p) ==
    [new_health_score    |-> ToFixed1(newHealth(p), HealthUnit),
     delta_from_base     |-> ToFixed1(deltaFromBase(p), HealthUnit),
     projected_cash      |-> MathRound(projectedCash(p), MoneyUnit),
     risk_index          |-> ToFixed1(riskIndex(p), RiskUnit),
     revenue_forecast    |-> revenueForecast(p),
     explanation_summary |-> explanation_summary(p),
     metadata            |-> baseResult.metadata]

(***************************************************************************)
(* Values that may be null: <<>> stands for null (or for a missing item of *)
(* localStorage), <<v>> for the value v.                                   *)
(***************************************************************************)
Nothing == <<>>
Some(v) == <<v>>

\* if (x) for a string x that may be null: null and '' are falsy.
Truthy(x) == x /= Nothing /\ x[1] /= ""

\* localStorage with no item.
EmptyStorage ==
    [business_ai_token             |-> Nothing,
     business_ai_user              |-> Nothing,
     lucent_inventory_data_rows_v1 |-> Nothing]

\* The three request helpers of services/api.ts.
Fns == {"api", "uploadCsv", "report.pdf"}

\* No response (yet, or ever: fetch itself rejected).
NoResponse ==
    [status |-> 0, statusText |-> "", contentType |-> "", json |-> "invalid",
     detail |-> [type |-> "undefined", text |-> ""]]

\* A helper that has not been called.
IdleCall ==
    [state |-> "idle", authorization |-> Nothing, res |-> NoResponse,
     message |-> "", data |-> ""]

NoCalls == [fn \in Fns |-> IdleCall]

\* The pages before they are mounted: the initial values of their useState
\* hooks, no effect run yet.
RevenueIntelligenceUnmounted ==
    [mounted |-> FALSE, token |-> Nothing, revenue |-> Nothing, risk |-> Nothing,
     error |-> Nothing, loads |-> <<>>]

ProductsUnmounted ==
    [mounted |-> FALSE, products |-> <<>>, loading |-> TRUE, error |-> Nothing,
     sortOrder |-> "highest", effects |-> <<>>]

VendorsUnmounted ==
    [mounted |-> FALSE, vendors |-> <<>>, loading |-> TRUE, error |-> Nothing]

(***************************************************************************)
(* The panel.                                                              *)
(***************************************************************************)
PanelInit ==
    /\ params = DEFAULT_PARAMS
    /\ currentResult = Null
    /\ loading = FALSE
    /\ baseResult = BaseResultValue
    /\ ranWith = Null
    /\ runs = 0

Init ==
    /\ PanelInit
    /\ localStorage = EmptyStorage
    /\ location = "/"
    /\ calls = NoCalls
    /\ revenueIntelligence = RevenueIntelligenceUnmounted
    /\ productsPage = ProductsUnmounted
    /\ vendorsPage = VendorsUnmounted

\* A Run that also stores the simulated health score as the new base.
handleRunRebasing ==
    /\ ~loading
    /\ currentResult' = runLocalSimulation(params)
    /\ loading' = FALSE
    /\ ranWith' = params
    /\ runs' = Min(runs + 1, MaxRuns)
    /\ baseResult' =
          [baseResult EXCEPT !.metadata.base_health_score =
              runLocalSimulation(params).new_health_score \div HealthUnit]
    /\ UNCHANGED params
    /\ UNCHANGED appVars

\* The Run button (disabled while loading).  setLoading(true),
\* setCurrentResult(result) and setLoading(false) are one synchronous handler:
\* the state after it has the result and loading = false.
handleRun ==
    /\ ~loading
    /\ currentResult' = runLocalSimulation(params)
    /\ loading' = FALSE
    /\ ranWith' = params
    /\ runs' = Min(runs + 1, MaxRuns)
    /\ UNCHANGED <<params, baseResult>>
    /\ UNCHANGED appVars

\* A lever change that also discards the result on display.
updateParamResetting(key, value) ==
    /\ params' = [params EXCEPT ![key] = value]
    /\ currentResult' = Null
    /\ UNCHANGED <<loading, baseResult, ranWith, runs>>
    /\ UNCHANGED appVars

\* setParams(prev => ({ ...prev, [key]: value }))
updateParam(key, value) ==
    /\ params' = [params EXCEPT ![key] = value]
    /\ UNCHANGED <<currentResult, loading, baseResult, ranWith, runs>>
    /\ UNCHANGED appVars

\* const activeResult = currentResult || baseResult
activeResult == IF currentResult /= Null THEN currentResult ELSE baseResult

\* const revenueDelta = useMemo(...): 0 before the first run, afterwards the
\* sum of the forecast on display minus the sum of the baseline forecast.
revenueDelta ==
    IF currentResult = Null THEN 0
    ELSE LET baseSum == baseResult.revenue_forecast[1].value + baseResult.revenue_forecast[2].value
                        + baseResult.revenue_forecast[3].value + baseResult.revenue_forecast[4].value
             curSum == currentResult.revenue_forecast[1].value + currentResult.revenue_forecast[2].value
                       + currentResult.revenue_forecast[3].value + currentResult.revenue_forecast[4].value
         IN  curSum - baseSum

Next ==
    \/ handleRun
    \/ \E key \in Keys : \E value \in LeverValues(key) : updateParam(key, value)

Spec == Init /\ [][Next]_vars

(***************************************************************************)
(* The same panel with the levers kept inside the slider ranges: both ends *)
(* of every slider, the neutral position, and a supplier delay a           *)
(* thousandth below neutral.                                               *)
(***************************************************************************)
SliderValues(key) ==
    CASE key = "sales_growth_multiplier" -> {800, 1000, 1300}
      [] key = "expense_growth_multiplier" -> {800, 1000, 1300}
      [] key = "fraud_sensitivity" -> {500, 1000, 1500}
      [] key = "supplier_delay_factor" -> {800, 999, 1000, 1500}
      [] key = "reorder_threshold_multiplier" -> {500, 1000, 1500}

NextSlider ==
    \/ handleRun
    \/ \E key \in Keys : \E value \in SliderValues(key) : updateParam(key, value)

SpecSlider == Init /\ [][NextSlider]_vars

(***************************************************************************)
(* The same panel with lever values chosen for the wording of the          *)
(* explanation: growth levers whose percentage is positive, negative, and  *)
(* rounds to 0 from either side (the positive ones far above the slider   *)
(* range), and fraud sensitivities below and above 1.0, one of them with   *)
(* three decimals.                                                         *)
(***************************************************************************)
WordingValues(key) ==
    CASE key = "sales_growth_multiplier" -> {800, 996, 1000, 1004, 2000}
      [] key = "expense_growth_multiplier" -> {800, 996, 1000, 1004, 5000}
      [] key = "fraud_sensitivity" -> {500, 1000, 1254}
      [] key = "supplier_delay_factor" -> {1000, 1500}
      [] key = "reorder_threshold_multiplier" -> {1000, 1500}

NextWording ==
    \/ handleRun
    \/ \E key \in Keys : \E value \in WordingValues(key) : updateParam(key, value)

SpecWording == Init /\ [][NextWording]_vars

(***************************************************************************)
(* services/api.ts: api, uploadCsv and report.pdf.  Each helper reads the  *)
(* token, awaits fetch, and then handles the response; the two halves are  *)
(* two actions, and calls of different helpers interleave.                 *)
(***************************************************************************)

\* A JavaScript value found in the field detail of an error body.
JsUndefined == [type |-> "undefined", text |-> ""]
JsString(text) == [type |-> "string", text |-> text]
JsObject == [type |-> "object", text |-> "[object Object]"]

\* A response: json says what res.json() does ("object": resolves to an
\* object whose detail is the field detail, "null": resolves to null,
\* "invalid": rejects).
Res(status, statusText, contentType, json, detail) ==
    [status |-> status, statusText |-> statusText, contentType |-> contentType,
     json |-> json, detail |-> detail]

Responses ==
    { Res(200, "OK", "application/json", "object", JsUndefined),
      Res(200, "OK", "application/pdf", "invalid", JsUndefined),
      Res(201, "Created", "application/json", "invalid", JsUndefined),
      Res(401, "Unauthorized", "application/json", "object", JsString("Not authenticated")),
      Res(401, "", "text/html", "invalid", JsUndefined),
      Res(403, "Forbidden", "application/json", "object", JsString("Not allowed")),
      Res(404, "Not Found", "application/json", "object", JsString("")),
      Res(422, "", "application/json", "object", JsObject),
      Res(400, "Bad Request", "application/json", "null", JsUndefined),
      Res(500, "Internal Server Error", "text/html", "invalid", JsUndefined),
      Res(502, "", "text/html", "invalid", JsUndefined) }

\* What the awaited fetch gives: a response, or a rejection (NoResponse).
FetchOutcomes == Responses \cup {NoResponse}

\* res.ok
ok(res) == res.status >= 200 /\ res.status <= 299

\* function getToken()
getToken == localStorage.business_ai_token

\* headers['Authorization'] = `Bearer ${token}`, set if (token)
AuthorizationHeader ==
    IF Truthy(getToken) THEN Some("Bearer " \o getToken[1]) ELSE Nothing

\* The part of a helper before its await: the call is in flight.
Pending == [IdleCall EXCEPT !.state = "pending", !.authorization = AuthorizationHeader]

\* A call ends by throwing / by returning.
Rejected(call, res, message) ==
    [call EXCEPT !.state = "rejected", !.res = res, !.message = message]
Resolved(call, res, data) ==
    [call EXCEPT !.state = "resolved", !.res = res, !.data = data]

\* await res.json().catch(() => ({ detail: res.statusText })): the detail of
\* the error body; reading it from a body that is null throws.
ErrDetail(res) ==
    CASE res.json = "invalid" -> JsString(res.statusText)
      [] res.json = "object" -> res.detail
      [] res.json = "null" -> JsUndefined

TypeErrorMessage == "Cannot read properties of null (reading 'detail')"

\* new Error(err.detail || fallback).message
DetailOr(res, fallback) ==
    IF res.json = "null" THEN TypeErrorMessage
    ELSE LET d == ErrDetail(res)
         IN  CASE d.type = "undefined" -> fallback
               [] d.type = "string" -> IF d.text = "" THEN fallback ELSE d.text
               [] d.type = "object" -> d.text

\* new Error(typeof err.detail === 'string' ? err.detail : 'Upload failed').message
StringDetailOr(res, fallback) ==
    IF res.json = "null" THEN TypeErrorMessage
    ELSE LET d == ErrDetail(res)
         IN  IF d.type = "string" THEN d.text ELSE fallback

\* The frame of a step of services/api.ts.
ApiFrame == UNCHANGED <<panelVars, revenueIntelligence, productsPage, vendorsPage>>

\* localStorage.removeItem('business_ai_token'); removeItem('business_ai_user')
CredentialsRemoved ==
    [localStorage EXCEPT !.business_ai_token = Nothing, !.business_ai_user = Nothing]

\* api(), lines 14-21: up to the await of fetch.
api_fetch ==
    /\ calls["api"].state /= "pending"
    /\ calls' = [calls EXCEPT !["api"] = Pending]
    /\ UNCHANGED <<localStorage, location>>
    /\ ApiFrame

\* api(), lines 21-33: fetch has settled.
api_response(res) ==
    /\ calls["api"].state = "pending"
    /\ IF res = NoResponse
       THEN /\ calls' = [calls EXCEPT !["api"] = Rejected(@, res, "Failed to fetch")]
            /\ UNCHANGED <<localStorage, location>>
       ELSE IF res.status = 401
       THEN /\ localStorage' = CredentialsRemoved
            /\ location' = "/login"
            /\ calls' = [calls EXCEPT !["api"] = Rejected(@, res, "UNAUTHORIZED")]
       ELSE IF ~ok(res)
       THEN /\ calls' = [calls EXCEPT !["api"] = Rejected(@, res, DetailOr(res, "Request failed"))]
            /\ UNCHANGED <<localStorage, location>>
       ELSE IF res.contentType = "application/json"
       THEN /\ calls' = [calls EXCEPT !["api"] =
                            IF res.json = "invalid"
                            THEN Rejected(@, res, "Unexpected end of JSON input")
                            ELSE Resolved(@, res, "json")]
            /\ UNCHANGED <<localStorage, location>>
       ELSE /\ calls' = [calls EXCEPT !["api"] = Resolved(@, res, "blob")]
            /\ UNCHANGED <<localStorage, location>>
    /\ ApiFrame

\* uploadCsv(), lines 38-48: up to the await of fetch.
uploadCsv_fetch ==
    /\ calls["uploadCsv"].state /= "pending"
    /\ calls' = [calls EXCEPT !["uploadCsv"] = Pending]
    /\ UNCHANGED <<localStorage, location>>
    /\ ApiFrame

\* uploadCsv() that removes the token only.
uploadCsv_responseKeepsUser(res) ==
    /\ calls["uploadCsv"].state = "pending"
    /\ IF res = NoResponse
       THEN /\ calls' = [calls EXCEPT !["uploadCsv"] = Rejected(@, res, "Failed to fetch")]
            /\ UNCHANGED <<localStorage, location>>
       ELSE IF res.status = 401
       THEN /\ localStorage' = [localStorage EXCEPT !.business_ai_token = Nothing]
            /\ location' = "/login"
            /\ calls' = [calls EXCEPT !["uploadCsv"] = Rejected(@, res, "UNAUTHORIZED")]
       ELSE IF ~ok(res)
       THEN /\ calls' = [calls EXCEPT !["uploadCsv"] =
                            Rejected(@, res, StringDetailOr(res, "Upload failed"))]
            /\ UNCHANGED <<localStorage, location>>
       ELSE /\ calls' = [calls EXCEPT !["uploadCsv"] =
                            IF res.json = "invalid"
                            THEN Rejected(@, res, "Unexpected end of JSON input")
                            ELSE Resolved(@, res, "json")]
            /\ UNCHANGED <<localStorage, location>>
    /\ ApiFrame

\* uploadCsv(), lines 44-59: fetch has settled.
uploadCsv_response(res) ==
    /\ calls["uploadCsv"].state = "pending"
    /\ IF res = NoResponse
       THEN /\ calls' = [calls EXCEPT !["uploadCsv"] = Rejected(@, res, "Failed to fetch")]
            /\ UNCHANGED <<localStorage, location>>
       ELSE IF res.status = 401
       THEN /\ localStorage' = CredentialsRemoved
            /\ location' = "/login"
            /\ calls' = [calls EXCEPT !["uploadCsv"] = Rejected(@, res, "UNAUTHORIZED")]
       ELSE IF ~ok(res)
       THEN /\ calls' = [calls EXCEPT !["uploadCsv"] =
                            Rejected(@, res, StringDetailOr(res, "Upload failed"))]
            /\ UNCHANGED <<localStorage, location>>
       ELSE /\ calls' = [calls EXCEPT !["uploadCsv"] =
                            IF res.json = "invalid"
                            THEN Rejected(@, res, "Unexpected end of JSON input")
                            ELSE Resolved(@, res, "json")]
            /\ UNCHANGED <<localStorage, location>>
    /\ ApiFrame

\* report.pdf(), lines 93-96: up to the await of fetch.
report_pdf_fetch ==
    /\ calls["report.pdf"].state /= "pending"
    /\ calls' = [calls EXCEPT !["report.pdf"] = Pending]
    /\ UNCHANGED <<localStorage, location>>
    /\ ApiFrame

\* report.pdf(), lines 96-107: fetch has settled.
report_pdf_response(res) ==
    /\ calls["report.pdf"].state = "pending"
    /\ IF res = NoResponse
       THEN /\ calls' = [calls EXCEPT !["report.pdf"] = Rejected(@, res, "Failed to fetch")]
            /\ UNCHANGED <<localStorage, location>>
       ELSE IF res.status = 401
       THEN /\ localStorage' = CredentialsRemoved
            /\ location' = "/login"
            /\ calls' = [calls EXCEPT !["report.pdf"] = Rejected(@, res, "UNAUTHORIZED")]
       ELSE IF ~ok(res)
       THEN /\ calls' = [calls EXCEPT !["report.pdf"] =
                            Rejected(@, res, DetailOr(res, "Download failed"))]
            /\ UNCHANGED <<localStorage, location>>
       ELSE /\ calls' = [calls EXCEPT !["report.pdf"] = Resolved(@, res, "blob")]
            /\ UNCHANGED <<localStorage, location>>
    /\ ApiFrame

\* The credentials a session starts with: none, or a token and a user stored
\* by an earlier login (alone, if the other item was lost).
StoredCredentials ==
    { [EmptyStorage EXCEPT !.business_ai_token = t, !.business_ai_user = u] :
        t \in {Nothing, Some("token-1")}, u \in {Nothing, Some("user-1")} }

InitApi ==
    /\ PanelInit
    /\ localStorage \in StoredCredentials
    /\ location = "/"
    /\ calls = NoCalls
    /\ revenueIntelligence = RevenueIntelligenceUnmounted
    /\ productsPage = ProductsUnmounted
    /\ vendorsPage = VendorsUnmounted

NextApi ==
    \/ api_fetch
    \/ \E res \in FetchOutcomes : api_response(res)
    \/ uploadCsv_fetch
    \/ \E res \in FetchOutcomes : uploadCsv_response(res)
    \/ report_pdf_fetch
    \/ \E res \in FetchOutcomes : report_pdf_response(res)

SpecApi == InitApi /\ [][NextApi]_vars

(***************************************************************************)
(* modules/RevenueIntelligence: the effect of the component runs at mount  *)
(* and whenever the token of useAuth changes; each run has its own         *)
(* variable mounted, which the cleanup of that run sets to false, and, if  *)
(* the token is set, its own call of load with two requests in flight.     *)
(***************************************************************************)

\* The effect runs the model follows (mounts and token changes).
MaxEffects == 2

\* The values useAuth gives as token.
Tokens == {Nothing, Some("token-1"), Some("token-2")}

\* What a request resolves to, and the messages of the errors it rejects with.
InsightValues == {1, 2}
ErrorMessages == {"", "UNAUTHORIZED"}

NoRequest == [state |-> "none", value |-> 0, message |-> ""]
PendingRequest == [state |-> "pending", value |-> 0, message |-> ""]
RequestOutcomes ==
    {[state |-> "fulfilled", value |-> v, message |-> ""] : v \in InsightValues}
    \cup {[state |-> "rejected", value |-> 0, message |-> m] : m \in ErrorMessages}

\* One run of the effect with the token t: let mounted = true; if (token) load()
Effect(t) ==
    [mounted |-> TRUE,
     token   |-> t,
     rev     |-> IF Truthy(t) THEN PendingRequest ELSE NoRequest,
     uri     |-> IF Truthy(t) THEN PendingRequest ELSE NoRequest,
     settled |-> FALSE]

\* return () => { mounted = false }, of the latest run of the effect
Cleanup(loads) == [loads EXCEPT ![Len(loads)].mounted = FALSE]

\* The frame of a step of the Revenue Intelligence module.
RevenueFrame == UNCHANGED <<panelVars, localStorage, location, calls, productsPage, vendorsPage>>

\* The component mounts (a new instance, with the initial values of its
\* state) and its effect runs.
RevenueIntelligence_mount(t) ==
    /\ ~revenueIntelligence.mounted
    /\ Len(revenueIntelligence.loads) < MaxEffects
    /\ revenueIntelligence' =
          [RevenueIntelligenceUnmounted EXCEPT
              !.mounted = TRUE,
              !.token = t,
              !.loads = Append(revenueIntelligence.loads, Effect(t))]
    /\ RevenueFrame

\* useAuth gives another token: the cleanup of the latest effect runs, then
\* the effect runs again.
RevenueIntelligence_tokenChange(t) ==
    /\ revenueIntelligence.mounted
    /\ t /= revenueIntelligence.token
    /\ Len(revenueIntelligence.loads) < MaxEffects
    /\ revenueIntelligence' =
          [revenueIntelligence EXCEPT
              !.token = t,
              !.loads = Append(Cleanup(@), Effect(t))]
    /\ RevenueFrame

\* The component unmounts: the cleanup of the latest effect runs.
RevenueIntelligence_unmount ==
    /\ revenueIntelligence.mounted
    /\ revenueIntelligence' =
          [revenueIntelligence EXCEPT !.mounted = FALSE, !.loads = Cleanup(@)]
    /\ RevenueFrame

\* (e as Error).message || 'Failed to load revenue intelligence'
LoadErrorMessage(message) ==
    IF message = "" THEN "Failed to load revenue intelligence" ELSE message

\* A completion that updates the state whether or not its effect was cleaned up.
load_settlesUnguarded(i, which, outcome) ==
    LET l  == revenueIntelligence.loads[i]
        l2 == [l EXCEPT ![which] = outcome]
        allOk == l2.rev.state = "fulfilled" /\ l2.uri.state = "fulfilled"
    IN  /\ l[which].state = "pending"
        /\ IF ~l.settled /\ allOk
           THEN revenueIntelligence' =
                   [revenueIntelligence EXCEPT
                       !.loads[i] = [l2 EXCEPT !.settled = TRUE],
                       !.revenue = Some(l2.rev.value),
                       !.risk = Some(l2.uri.value)]
           ELSE IF ~l.settled /\ outcome.state = "rejected"
           THEN revenueIntelligence' =
                   [revenueIntelligence EXCEPT
                       !.loads[i] = [l2 EXCEPT !.settled = TRUE],
                       !.error = Some(LoadErrorMessage(outcome.message))]
           ELSE revenueIntelligence' = [revenueIntelligence EXCEPT !.loads[i] = l2]
        /\ RevenueFrame

\* One of the two requests of the load of effect i settles.  Promise.all
\* resolves when both have resolved and rejects at the first rejection; the
\* code after the await (or the catch block) runs then, once.
load_settles(i, which, outcome) ==
    LET l  == revenueIntelligence.loads[i]
        l2 == [l EXCEPT ![which] = outcome]
        allOk == l2.rev.state = "fulfilled" /\ l2.uri.state = "fulfilled"
    IN  /\ l[which].state = "pending"
        /\ IF ~l.settled /\ allOk
           THEN revenueIntelligence' =
                   IF l.mounted
                   THEN [revenueIntelligence EXCEPT
                            !.loads[i] = [l2 EXCEPT !.settled = TRUE],
                            !.revenue = Some(l2.rev.value),
                            !.risk = Some(l2.uri.value)]
                   ELSE [revenueIntelligence EXCEPT
                            !.loads[i] = [l2 EXCEPT !.settled = TRUE]]
           ELSE IF ~l.settled /\ outcome.state = "rejected"
           THEN revenueIntelligence' =
                   IF l.mounted
                   THEN [revenueIntelligence EXCEPT
                            !.loads[i] = [l2 EXCEPT !.settled = TRUE],
                            !.error = Some(LoadErrorMessage(outcome.message))]
                   ELSE [revenueIntelligence EXCEPT
                            !.loads[i] = [l2 EXCEPT !.settled = TRUE]]
           ELSE revenueIntelligence' = [revenueIntelligence EXCEPT !.loads[i] = l2]
        /\ RevenueFrame

NextRevenue ==
    \/ \E t \in Tokens : RevenueIntelligence_mount(t)
    \/ \E t \in Tokens : RevenueIntelligence_tokenChange(t)
    \/ RevenueIntelligence_unmount
    \/ \E i \in 1..Len(revenueIntelligence.loads) :
          \E which \in {"rev", "uri"} :
              \E outcome \in RequestOutcomes : load_settles(i, which, outcome)

SpecRevenue == Init /\ [][NextRevenue]_vars

(***************************************************************************)
(* pages/Products: the effect runs once per mount, starts the request for  *)
(* /products and has its own variable isMounted, which its cleanup sets to *)
(* false at unmount.                                                       *)
(***************************************************************************)

\* What api<Product[]>('/products') resolves to.
ProductLists ==
    { <<>>,
      <<[id |-> 1, total_sold |-> 5]>>,
      <<[id |-> 1, total_sold |-> 5], [id |-> 2, total_sold |-> 9]>> }

NoData == [state |-> "pending", data |-> <<>>, message |-> ""]
ProductsOutcomes ==
    {[state |-> "fulfilled", data |-> d, message |-> ""] : d \in ProductLists}
    \cup {[state |-> "rejected", data |-> <<>>, message |-> m] : m \in ErrorMessages}

\* The frame of a step of the Products page.
ProductsFrame ==
    UNCHANGED <<panelVars, localStorage, location, calls, revenueIntelligence, vendorsPage>>

\* The page mounts (a new instance, with the initial values of its state) and
\* its effect runs: setLoading(true), setError(null), the request starts.
Products_mount ==
    /\ ~productsPage.mounted
    /\ Len(productsPage.effects) < MaxEffects
    /\ productsPage' =
          [ProductsUnmounted EXCEPT
              !.mounted = TRUE,
              !.loading = TRUE,
              !.error = Nothing,
              !.effects = Append(productsPage.effects,
                                 [isMounted |-> TRUE, request |-> NoData])]
    /\ ProductsFrame

\* The page unmounts: return () => { isMounted = false }
Products_unmount ==
    /\ productsPage.mounted
    /\ productsPage' =
          [productsPage EXCEPT
              !.mounted = FALSE,
              !.effects[Len(productsPage.effects)].isMounted = FALSE]
    /\ ProductsFrame

\* onChange of the sort select
setSortOrder(order) ==
    /\ productsPage.mounted
    /\ productsPage' = [productsPage EXCEPT !.sortOrder = order]
    /\ ProductsFrame

\* err.message || 'Failed to load products'
ProductsErrorMessage(message) ==
    IF message = "" THEN "Failed to load products" ELSE message

\* A completion whose finally block calls setLoading(false) unconditionally.
products_settlesAlwaysFinally(i, outcome) ==
    LET e == productsPage.effects[i]
    IN  /\ e.request.state = "pending"
        /\ productsPage' =
              IF ~e.isMounted
              THEN [productsPage EXCEPT !.effects[i].request = outcome,
                                        !.loading = FALSE]
              ELSE IF outcome.state = "fulfilled"
              THEN [productsPage EXCEPT !.effects[i].request = outcome,
                                        !.products = outcome.data,
                                        !.loading = FALSE]
              ELSE [productsPage EXCEPT !.effects[i].request = outcome,
                                        !.error = Some(ProductsErrorMessage(outcome.message)),
                                        !.loading = FALSE]
        /\ ProductsFrame

\* The request of effect i settles: the then, catch and finally callbacks
\* run, each looking at isMounted of its effect first.
products_settles(i, outcome) ==
    LET e == productsPage.effects[i]
    IN  /\ e.request.state = "pending"
        /\ productsPage' =
              IF ~e.isMounted
              THEN [productsPage EXCEPT !.effects[i].request = outcome]
              ELSE IF outcome.state = "fulfilled"
              THEN [productsPage EXCEPT !.effects[i].request = outcome,
                                        !.products = outcome.data,
                                        !.loading = FALSE]
              ELSE [productsPage EXCEPT !.effects[i].request = outcome,
                                        !.error = Some(ProductsErrorMessage(outcome.message)),
                                        !.loading = FALSE]
        /\ ProductsFrame

NextProducts ==
    \/ Products_mount
    \/ Products_unmount
    \/ \E order \in {"highest", "lowest"} : setSortOrder(order)
    \/ \E i \in 1..Len(productsPage.effects) :
          \E outcome \in ProductsOutcomes : products_settles(i, outcome)

SpecProducts == Init /\ [][NextProducts]_vars

(***************************************************************************)
(* pages/Vendors, the list of vendors: its effect reads the inventory rows *)
(* from localStorage and computes the vendors and their ratings at mount,  *)
(* without awaiting anything.  A string is held as the sequence of its     *)
(* characters; a rating before Math.round is held in thousandths.          *)
(***************************************************************************)

\* Longest inventory the model draws row by row.
MaxRows == 2

RatingUnit == 1000

Whitespace == {" ", "\t"}

\* String.prototype.trim
RECURSIVE trim(_)
trim(str) ==
    IF str = <<>> THEN str
    ELSE IF Head(str) \in Whitespace THEN trim(Tail(str))
    ELSE IF str[Len(str)] \in Whitespace THEN trim(SubSeq(str, 1, Len(str) - 1))
    ELSE str

\* The field vendor of a row: missing, blank, or a name with or without
\* spaces around it.
VendorFields ==
    { Nothing, Some(<<>>), Some(<<" ">>), Some(<<"A">>), Some(<<" ", "A">>),
      Some(<<"B", " ">>) }

\* The field quantity of a row: missing, or a number.
QuantityFields == {Nothing, Some(50), Some(150), Some(250)}

InventoryRows == [vendor : VendorFields, quantity : QuantityFields]

\* n copies of one row.
Copies(row, n) == [i \in 1..n |-> row]

\* The inventories the model starts from: every sequence of up to MaxRows
\* rows, and long inventories of one vendor (8 and 11 rows).
Inventories ==
    UNION { [1..n -> InventoryRows] : n \in 0..MaxRows }
    \cup { Copies([vendor |-> Some(<<"A">>), quantity |-> q], n) :
              q \in QuantityFields, n \in {8, 11} }

\* The item lucent_inventory_data_rows_v1: missing, not JSON, or rows.
InventoryItems ==
    {Nothing, Some([valid |-> FALSE, rows |-> <<>>])}
    \cup { Some([valid |-> TRUE, rows |-> rows]) : rows \in Inventories }

\* row.vendor?.trim(): undefined for a missing vendor.
trimmedVendor(row) ==
    IF row.vendor = Nothing THEN Nothing ELSE Some(trim(row.vendor[1]))

\* Array.from(new Set(...)): the first occurrence of each element, in order.
RECURSIVE Distinct(_, _)
Distinct(seq, seen) ==
    IF seq = <<>> THEN <<>>
    ELSE IF Head(seq) \in seen THEN Distinct(Tail(seq), seen)
    ELSE <<Head(seq)>> \o Distinct(Tail(seq), seen \cup {Head(seq)})

\* .map(...).filter((v) => !!v && v.length > 0)
RECURSIVE namedOnly(_)
namedOnly(rows) ==
    IF rows = <<>> THEN <<>>
    ELSE LET v == trimmedVendor(Head(rows))
         IN  IF v /= Nothing /\ Len(v[1]) > 0
             THEN <<v[1]>> \o namedOnly(Tail(rows))
             ELSE namedOnly(Tail(rows))

uniqueVendors(inventory_data) == Distinct(namedOnly(inventory_data), {})

\* inventory_data.filter((row) => row.vendor?.trim() === vendorName)
RECURSIVE vendorItems(_, _)
vendorItems(inventory_data, vendorName) ==
    IF inventory_data = <<>> THEN <<>>
    ELSE IF trimmedVendor(Head(inventory_data)) = Some(vendorName)
         THEN <<Head(inventory_data)>> \o vendorItems(Tail(inventory_data), vendorName)
         ELSE vendorItems(Tail(inventory_data), vendorName)

\* reduce((sum, item) => sum + Number(item.quantity || 0), 0)
RECURSIVE quantitySum(_)
quantitySum(items) ==
    IF items = <<>> THEN 0
    ELSE (IF Head(items).quantity = Nothing THEN 0 ELSE Head(items).quantity[1])
         + quantitySum(Tail(items))

\* The rating without the limits 1 and 5.
ratingUnclamped(items) ==
    LET totalProducts == Len(items)
        above200 == totalProducts > 0 /\ quantitySum(items) > 200 * totalProducts
        below100 == totalProducts = 0 \/ quantitySum(items) < 100 * totalProducts
        raw == 3 * RatingUnit + totalProducts * 200
               - (IF above200 THEN 300 ELSE 0) + (IF below100 THEN 500 ELSE 0)
    IN  MathRound(ToFixed1(raw, RatingUnit) * 20, RatingUnit)

\* let rating = 3 ... Math.round(rating * 20); avgQuantity > 200 is
\* sum > 200 * totalProducts, avgQuantity < 100 is sum < 100 * totalProducts
\* (avgQuantity is 0 when there is no item).
rating(items) ==
    LET totalProducts == Len(items)
        above200 == totalProducts > 0 /\ quantitySum(items) > 200 * totalProducts
        below100 == totalProducts = 0 \/ quantitySum(items) < 100 * totalProducts
        raw == 3 * RatingUnit + totalProducts * 200
               - (IF above200 THEN 300 ELSE 0) + (IF below100 THEN 500 ELSE 0)
        clamped == Max(1 * RatingUnit, Min(5 * RatingUnit, ToFixed1(raw, RatingUnit)))
    IN  MathRound(clamped * 20, RatingUnit)

\* const computed: Vendor[] = uniqueVendors.map((vendorName, index) => ...)
computed(inventory_data) ==
    LET names == uniqueVendors(inventory_data)
    IN  [index \in 1..Len(names) |->
            [id     |-> index,
             name   |-> names[index],
             rating |-> rating(vendorItems(inventory_data, names[index]))]]

\* The frame of a step of the Vendors page.
VendorsFrame ==
    UNCHANGED <<panelVars, localStorage, location, calls, revenueIntelligence, productsPage>>

\* The page mounts (a new instance) and its effect runs to the end:
\* JSON.parse throws on an item that is not JSON, and a missing item gives no
\* rows.
Vendors_mount ==
    LET raw == localStorage.lucent_inventory_data_rows_v1
    IN  /\ ~vendorsPage.mounted
        /\ vendorsPage' =
              IF raw /= Nothing /\ ~raw[1].valid
              THEN [VendorsUnmounted EXCEPT
                       !.mounted = TRUE,
                       !.error = Some("Unexpected token in JSON"),
                       !.loading = FALSE]
              ELSE [VendorsUnmounted EXCEPT
                       !.mounted = TRUE,
                       !.vendors = computed(IF raw = Nothing THEN <<>> ELSE raw[1].rows),
                       !.loading = FALSE]
        /\ VendorsFrame

\* The page unmounts.
Vendors_unmount ==
    /\ vendorsPage.mounted
    /\ vendorsPage' = [vendorsPage EXCEPT !.mounted = FALSE]
    /\ VendorsFrame

InitVendors ==
    /\ PanelInit
    /\ \E item \in InventoryItems :
          localStorage = [EmptyStorage EXCEPT !.lucent_inventory_data_rows_v1 = item]
    /\ location = "/"
    /\ calls = NoCalls
    /\ revenueIntelligence = RevenueIntelligenceUnmounted
    /\ productsPage = ProductsUnmounted
    /\ vendorsPage = VendorsUnmounted

NextVendors ==
    \/ Vendors_mount
    \/ Vendors_unmount

SpecVendors == InitVendors /\ [][NextVendors]_vars

(***************************************************************************)
(* Properties of a simulation run.                                         *)
(***************************************************************************)
Ran == ranWith /= Null

Neutral(p) == \A key \in Keys : p[key] = LeverUnit

\* p and q agree on every lever but key.
SameExcept(p, q, key) == \A k \in Keys \ {key} : p[k] = q[k]

\* Only the lever key of p is off 1.0, and it has the value v.
OnlyLever(p, key, v) == p[key] = v /\ \A k \in Keys \ {key} : p[k] = LeverUnit

\* The summary of the result r of a run with levers p is the joined sentence
\* list and sentence is one of its sentences.
SummaryContains(r, p, sentence) ==
    /\ r.explanation_summary = Join(explanationParts(p))
    /\ \E i \in 1..Len(explanationParts(p)) : explanationParts(p)[i] = sentence

TypeOK ==
    /\ params \in [Keys -> Int]
    /\ loading \in BOOLEAN
    /\ runs \in 0..MaxRuns
    /\ (ranWith = Null) = (currentResult = Null)
    /\ (ranWith = Null) = (runs = 0)

\* C1: whatever the five lever values are, the result of a run has
\* risk_index in [0,100] and new_health_score in [0,100].
C1_ScoresInRange ==
    Ran =>
        /\ currentResult.risk_index >= 0
        /\ currentResult.risk_index <= 100 * RiskUnit
        /\ currentResult.new_health_score >= 0
        /\ currentResult.new_health_score <= 100 * HealthUnit

\* A run whose raw risk is above 100 and whose unclamped health is below 0.
C1_Witness ==
    /\ Ran
    /\ rawRisk(ranWith) > 100 * RiskUnit
    /\ baseHealth * HealthUnit + healthDelta(ranWith) < 0
    /\ currentResult.risk_index = 100 * RiskUnit
    /\ currentResult.new_health_score = 0

\* C2: a run with all five multipliers at 1.0 reproduces the baseline:
\* new_health_score = base_health_score and delta_from_base = 0.
C2_NeutralReproducesBaseline ==
    (Ran /\ Neutral(ranWith)) =>
        /\ currentResult.new_health_score = baseHealth * HealthUnit
        /\ currentResult.delta_from_base = 0

\* C3: explanation_summary is never empty, and it is the fallback sentence
\* exactly when all five levers are 1.0.
C3_FallbackIffNeutral ==
    Ran =>
        /\ currentResult.explanation_summary /= ""
        /\ (currentResult.explanation_summary = FallbackExplanation) = Neutral(ranWith)

\* A run with every lever at 1.0, which reports the fallback sentence.
C3_Witness ==
    /\ Ran
    /\ Neutral(ranWith)
    /\ currentResult.explanation_summary = FallbackExplanation

\* C4: revenue_forecast has the 4 entries P1..P4 in order, entry i (from 0)
\* being round(base_expense_total * 1.4 * (1 + 0.03 * i) * sales); with
\* base expense 50000 and neutral levers it is 70000, 72100, 74200, 76300.
\* v = round(x) is stated as x - 1/2 < v <= x + 1/2, with x in thousandths:
\* x = (base_expense_total * 14 * (100 + 3 * i) / 1000) * sales.
C4_RevenueForecast ==
    Ran =>
        LET f == currentResult.revenue_forecast
            x(i) == ((baseExpense * 14 * (100 + 3 * i)) \div 1000)
                        * ranWith.sales_growth_multiplier
        IN  /\ Len(f) = 4
            /\ \A i \in 0..3 :
                /\ (baseExpense * 14 * (100 + 3 * i)) % 1000 = 0
                /\ f[i + 1].period = <<"P1", "P2", "P3", "P4">>[i + 1]
                /\ f[i + 1].value % MoneyUnit = 0
                /\ 2 * x(i) - MoneyUnit < 2 * f[i + 1].value
                /\ 2 * f[i + 1].value <= 2 * x(i) + MoneyUnit
            /\ (Neutral(ranWith) /\ baseExpense = 50000) =>
                    /\ f[1].value = 70000 * MoneyUnit
                    /\ f[2].value = 72100 * MoneyUnit
                    /\ f[3].value = 74200 * MoneyUnit
                    /\ f[4].value = 76300 * MoneyUnit

\* A run whose revenue values are not whole before rounding (sales 1.004:
\* 70000 * 1.03 * 1.004 = 72388.4).
C4_Witness ==
    /\ Ran
    /\ revenueSeries(ranWith)[2] % MoneyUnit /= 0
    /\ currentResult.revenue_forecast[2].value = 72388 * MoneyUnit

\* C5: of two runs that differ only in sales_growth_multiplier, the one with
\* the larger multiplier has no smaller revenue_forecast value in any period
\* and no smaller projected_cash.  The earlier run is the one on display, the
\* later one the run of the levers as they are set now.
C5_SalesMonotone ==
    (/\ Ran
     /\ SameExcept(params, ranWith, "sales_growth_multiplier")
     /\ params.sales_growth_multiplier >= ranWith.sales_growth_multiplier
     /\ baseExpense >= 0) =>
        LET later == runLocalSimulation(params)
        IN  /\ \A i \in 1..4 :
                later.revenue_forecast[i].value >= currentResult.revenue_forecast[i].value
            /\ later.projected_cash >= currentResult.projected_cash

\* After a run, only the sales lever was raised.
C5_Witness ==
    /\ Ran
    /\ SameExcept(params, ranWith, "sales_growth_multiplier")
    /\ params.sales_growth_multiplier > ranWith.sales_growth_multiplier
    /\ runLocalSimulation(params).projected_cash > currentResult.projected_cash

\* C6: the result of a run depends only on the levers and the baseline given
\* to it: in every state reached by lever changes and earlier runs, running
\* again with the levers of the run on display gives that result again, in
\* every field.
C6_Pure ==
    Ran => currentResult = runLocalSimulation(ranWith)

\* A second or later run is on display and the levers were changed after it.
C6_Witness ==
    /\ runs >= 2
    /\ params /= ranWith
    /\ ~Neutral(ranWith)

\* C7: new_health_score, delta_from_base and risk_index are multiples of 0.1;
\* projected_cash and every revenue value are whole numbers.
C7_Rounded ==
    Ran =>
        /\ currentResult.new_health_score % (HealthUnit \div 10) = 0
        /\ currentResult.delta_from_base % (HealthUnit \div 10) = 0
        /\ currentResult.risk_index % (RiskUnit \div 10) = 0
        /\ currentResult.projected_cash % MoneyUnit = 0
        /\ \A i \in 1..4 : currentResult.revenue_forecast[i].value % MoneyUnit = 0

\* A run in which health, delta, cash and a revenue value all needed rounding.
C7_Witness ==
    /\ Ran
    /\ newHealth(ranWith) % (HealthUnit \div 10) /= 0
    /\ deltaFromBase(ranWith) % (HealthUnit \div 10) /= 0
    /\ projectedCash(ranWith) % MoneyUnit /= 0
    /\ revenueSeries(ranWith)[2] % MoneyUnit /= 0

SalesUp20Sentence ==
    "Sales growth increased by 20% which lifts projected revenue across the horizon."

\* C9: with sales 1.2 and the other levers at 1.0, every revenue value is 1.2
\* times the value of the all-neutral run, and the summary contains the sales
\* sentence reporting a 20% increase.
C9_Sales120 ==
    (Ran /\ OnlyLever(ranWith, "sales_growth_multiplier", 1200)) =>
        /\ \A i \in 1..4 :
              10 * currentResult.revenue_forecast[i].value
                = 12 * runLocalSimulation(DEFAULT_PARAMS).revenue_forecast[i].value
        /\ SummaryContains(currentResult, ranWith, SalesUp20Sentence)

\* The run with sales 1.2 and the other levers neutral.
C9_Witness ==
    /\ Ran
    /\ OnlyLever(ranWith, "sales_growth_multiplier", 1200)
    /\ currentResult.revenue_forecast[1].value = 84000 * MoneyUnit

ExpenseUp30Sentence ==
    "Expenses are projected to grow by 30%, creating additional pressure on cash and health."

\* C10: with expense growth 1.3 and the other levers at 1.0, risk_index is 18
\* above the risk_index of the all-neutral run, and the summary contains the
\* expense sentence about additional pressure on cash and health.
C10_Expense130 ==
    (Ran /\ OnlyLever(ranWith, "expense_growth_multiplier", 1300)) =>
        /\ currentResult.risk_index
              = runLocalSimulation(DEFAULT_PARAMS).risk_index + 18 * RiskUnit
        /\ SummaryContains(currentResult, ranWith, ExpenseUp30Sentence)

\* The run with expense growth 1.3 and the other levers neutral.
C10_Witness ==
    /\ Ran
    /\ OnlyLever(ranWith, "expense_growth_multiplier", 1300)
    /\ currentResult.risk_index = 24 * RiskUnit

\* The starting cash of the baseline: the code holds it as the literal 100_000
\* of runLocalSimulation, which is also the projected_cash of baseResult.
StartingCash == baseResult.projected_cash

\* starting_cash + the four unrounded revenue values
\*   - 4 * base_expense_total * expense_growth_multiplier, in thousandths,
\* written out from the baseline and the levers.
CashFormula(p) ==
    StartingCash
      + ((baseExpense * 14 * 100) \div 1000) * p.sales_growth_multiplier
      + ((baseExpense * 14 * 103) \div 1000) * p.sales_growth_multiplier
      + ((baseExpense * 14 * 106) \div 1000) * p.sales_growth_multiplier
      + ((baseExpense * 14 * 109) \div 1000) * p.sales_growth_multiplier
      - 4 * baseExpense * p.expense_growth_multiplier

\* C11: projected_cash is round(starting_cash + the sum of the four unrounded
\* revenue values - 4 * base_expense_total * expense_growth_multiplier); it is
\* not clamped, so it is negative whenever the expenses exceed starting cash
\* plus revenue.  v = round(x) is stated as -1/2 < v - x <= 1/2.
C11_ProjectedCash ==
    Ran =>
        LET v == currentResult.projected_cash
            x == CashFormula(ranWith)
        IN  /\ (baseExpense * 14) % 1000 = 0
            /\ v % MoneyUnit = 0
            /\ v - x > -(MoneyUnit \div 2)
            /\ v - x <= MoneyUnit \div 2
            /\ (x <= -MoneyUnit) => v < 0

\* A run whose expenses exceed starting cash plus revenue.
C11_Witness ==
    /\ Ran
    /\ expenseSum(ranWith) > 100000 * MoneyUnit + revenueSum(ranWith)
    /\ currentResult.projected_cash < 0

\* C12 as claimed: a run never modifies the baseline, and result.metadata
\* echoes every baseline field the run consumed: health score, expense total,
\* fraud rate and starting cash.
C12_MetadataWithStartingCash ==
    /\ baseResult = BaseResultValue
    /\ Ran =>
          /\ DOMAIN currentResult.metadata =
                {"base_health_score", "base_expense_total", "fraud_rate_percent",
                 "starting_cash"}
          /\ currentResult.metadata.base_health_score = 75
          /\ currentResult.metadata.base_expense_total = 50000
          /\ currentResult.metadata.fraud_rate_percent = 10
          /\ currentResult.metadata.starting_cash = 100000

\* C12 as amended: a run never modifies the baseline, and result.metadata
\* echoes the three baseline fields the run reads (health score, expense total,
\* fraud rate) and nothing else: after any sequence of runs the baseline has
\* its initial values and the metadata of the result equals them.
C12_BaselineKeptAndEchoed ==
    /\ baseResult = BaseResultValue
    /\ Ran =>
          /\ DOMAIN currentResult.metadata =
                {"base_health_score", "base_expense_total", "fraud_rate_percent"}
          /\ currentResult.metadata.base_health_score = 75
          /\ currentResult.metadata.base_expense_total = 50000
          /\ currentResult.metadata.fraud_rate_percent = 10
          /\ currentResult.metadata = baseResult.metadata

\* As many runs as the counter counts have been made, the last one moving the
\* health score away from the base.
C12_Witness ==
    /\ runs = MaxRuns
    /\ currentResult.new_health_score /= 75 * HealthUnit
    /\ currentResult.metadata.base_health_score = 75

\* C13: the engine is total and neither clamps nor rejects lever values: for
\* every lever combination, inside or outside the typical ranges, a run is
\* possible (the Run button, disabled only while loading, is never disabled)
\* and completes with a result of the seven fields, computed from the lever
\* values as given: the first revenue value is base_expense_total * 1.4 *
\* sales and the projected cash is within rounding of the cash formula of the
\* unmodified levers.
C13_TotalUnclamped ==
    /\ ~loading
    /\ Ran =>
          /\ DOMAIN currentResult =
                {"new_health_score", "delta_from_base", "projected_cash", "risk_index",
                 "revenue_forecast", "explanation_summary", "metadata"}
          /\ (baseExpense * 14) % 10 = 0
          /\ currentResult.revenue_forecast[1].value
                = ((baseExpense * 14) \div 10) * ranWith.sales_growth_multiplier
          /\ Abs(currentResult.projected_cash - CashFormula(ranWith)) <= MoneyUnit \div 2

\* A run with the sales and the expense lever both above their slider range.
C13_Witness ==
    /\ Ran
    /\ ranWith.sales_growth_multiplier > 1300
    /\ ranWith.expense_growth_multiplier > 1300
    /\ currentResult.revenue_forecast[1].value = 70 * ranWith.sales_growth_multiplier * MoneyUnit

\* fraud_rate_percent * 0.6 * fraud_sensitivity + (supplier_delay_factor - 1) * 40
\*   + (reorder_threshold_multiplier - 1) * 25 + (expense_growth_multiplier - 1) * 60,
\* in RiskUnit, written out from the baseline and the levers.
RiskFormula(p) ==
    baseResult.metadata.fraud_rate_percent * 6 * p.fraud_sensitivity
      + (p.supplier_delay_factor - 1000) * 400
      + (p.reorder_threshold_multiplier - 1000) * 250
      + (p.expense_growth_multiplier - 1000) * 600

ClampedRiskFormula(p) ==
    IF RiskFormula(p) < 0 THEN 0
    ELSE IF RiskFormula(p) > 100 * RiskUnit THEN 100 * RiskUnit
    ELSE RiskFormula(p)

\* C14: risk_index is clamp(fraud_rate_percent * 0.6 * fraud_sensitivity
\* + (supplier_delay_factor - 1) * 40 + (reorder_threshold_multiplier - 1) * 25
\* + (expense_growth_multiplier - 1) * 60, 0, 100) rounded to 1 decimal: a
\* multiple of 0.1 at most 0.05 away from the clamped value; for fraud rate
\* 10% and neutral levers it is 6.0.
C14_RiskFormula ==
    Ran =>
        /\ currentResult.risk_index % (RiskUnit \div 10) = 0
        /\ Abs(currentResult.risk_index - ClampedRiskFormula(ranWith)) <= RiskUnit \div 20
        /\ (Neutral(ranWith) /\ baseResult.metadata.fraud_rate_percent = 10)
              => currentResult.risk_index = 6 * RiskUnit

\* A run with both supply-chain levers and the fraud lever off neutral whose
\* risk is not clamped: 10 * 0.6 * 1.5 + 0.5 * 40 + 0.5 * 25 = 41.5.
C14_Witness ==
    /\ Ran
    /\ ranWith.fraud_sensitivity = 1500
    /\ ranWith.supplier_delay_factor = 1500
    /\ ranWith.reorder_threshold_multiplier = 1500
    /\ ranWith.expense_growth_multiplier = 1000
    /\ currentResult.risk_index = 415 * (RiskUnit \div 10)

\* base_health_score + (sales - expense) * 18 - (risk_index - 40) / 4.5
\*   - (supplier_delay_factor - 1) * 10, in HealthUnit, written out from the
\* baseline and the levers; risk_index is the clamped risk, not rounded.
HealthFormula(p) ==
    baseResult.metadata.base_health_score * HealthUnit
      + (p.sales_growth_multiplier - p.expense_growth_multiplier) * 1620
      - (ClampedRiskFormula(p) - 40 * RiskUnit) * 2
      - (p.supplier_delay_factor - 1000) * 900

ClampedHealthFormula(p) ==
    IF HealthFormula(p) < 0 THEN 0
    ELSE IF HealthFormula(p) > 100 * HealthUnit THEN 100 * HealthUnit
    ELSE HealthFormula(p)

\* C15: new_health_score is clamp(base_health_score + (sales - expense) * 18
\* - (risk_index - 40) / 4.5 - (supplier_delay_factor - 1) * 10, 0, 100)
\* rounded to 1 decimal (a multiple of 0.1 at most 0.05 away), risk_index
\* being the clamped and not yet rounded risk, not the raw risk.
C15_HealthFormula ==
    Ran =>
        /\ currentResult.new_health_score % (HealthUnit \div 10) = 0
        /\ Abs(currentResult.new_health_score - ClampedHealthFormula(ranWith))
              <= HealthUnit \div 20

\* A run whose raw risk is below 0 while its health is not clamped
\* (expense 0.8 alone: raw risk 6 - 12, health 75 + 3.6 + 40 / 4.5 = 87.49).
C15_Witness ==
    /\ Ran
    /\ RiskFormula(ranWith) < 0
    /\ HealthFormula(ranWith) > 0
    /\ HealthFormula(ranWith) < 100 * HealthUnit
    /\ currentResult.new_health_score = 875 * (HealthUnit \div 10)

\* The sentences sent[i] with present[i], for i from the given one on, appended
\* to text with one space before each but the first.
RECURSIVE JoinPresent(_, _, _, _)
JoinPresent(present, sent, i, text) ==
    IF i > Len(sent) THEN text
    ELSE JoinPresent(present, sent, i + 1,
            IF ~present[i] THEN text
            ELSE IF text = "" THEN sent[i]
            ELSE text \o " " \o sent[i])

\* C16: explanation_summary is the single-space join of exactly the sentences
\* whose lever condition holds, in the order sales, expense, fraud,
\* supply-chain: a sentence is present iff its lever differs from 1.0, and
\* the supply-chain sentence is present once iff supplier_delay_factor or
\* reorder_threshold_multiplier (or both) differ from 1.0.
C16_SentenceOrder ==
    Ran =>
        LET present == << ranWith.sales_growth_multiplier /= 1000,
                          ranWith.expense_growth_multiplier /= 1000,
                          ranWith.fraud_sensitivity /= 1000,
                          \/ ranWith.supplier_delay_factor /= 1000
                          \/ ranWith.reorder_threshold_multiplier /= 1000 >>
            sent == << salesSentence(ranWith), expenseSentence(ranWith),
                       fraudSentence(ranWith), supplySentence >>
        IN  (\E i \in 1..4 : present[i]) =>
                currentResult.explanation_summary = JoinPresent(present, sent, 1, "")

\* A run with all five levers off neutral: four sentences, the supply-chain
\* one for two changed levers.
C16_Witness ==
    /\ Ran
    /\ \A key \in Keys : ranWith[key] /= 1000
    /\ Len(explanationParts(ranWith)) = 4

\* round((multiplier - 1) * 100): the whole number n with
\* n - 1/2 <= (multiplier - 1) * 100 < n + 1/2, which is the whole part of
\* (multiplier - 1) * 100 or the number after it.
RoundedPct(multiplier) ==
    CHOOSE n \in {(multiplier - 1000) \div 10, (multiplier - 1000) \div 10 + 1} :
        10 * n - 5 <= multiplier - 1000 /\ multiplier - 1000 < 10 * n + 5

\* C17: when sales_growth_multiplier differs from 1.0 the sales sentence
\* reports pct = round((multiplier - 1) * 100), with the 'increased ... lifts
\* projected revenue' wording exactly when pct >= 0 (also when pct rounds to
\* 0) and the 'reduced by |pct|% ... compresses' wording exactly when pct < 0;
\* the expense sentence follows the same rule with the pressure wording for
\* pct >= 0 and the relief wording for pct < 0.
C17_PctWording ==
    Ran =>
        LET sp == RoundedPct(ranWith.sales_growth_multiplier)
            ep == RoundedPct(ranWith.expense_growth_multiplier)
        IN  /\ (ranWith.sales_growth_multiplier /= 1000) =>
                  SummaryContains(currentResult, ranWith,
                      IF sp >= 0
                      THEN "Sales growth increased by " \o ToString(sp)
                              \o "% which lifts projected revenue across the horizon."
                      ELSE "Sales growth reduced by " \o ToString(-sp)
                              \o "% which compresses projected revenue.")
            /\ (ranWith.expense_growth_multiplier /= 1000) =>
                  SummaryContains(currentResult, ranWith,
                      IF ep >= 0
                      THEN "Expenses are projected to grow by " \o ToString(ep)
                              \o "%, creating additional pressure on cash and health."
                      ELSE "Expenses are reduced by " \o ToString(-ep)
                              \o "%, supporting stronger cash generation.")

\* A run with sales 0.996, whose percentage rounds to 0 from below, and
\* expenses 0.8, whose percentage is -20.
C17_Witness ==
    /\ Ran
    /\ ranWith.sales_growth_multiplier = 996
    /\ ranWith.expense_growth_multiplier = 800
    /\ SummaryContains(currentResult, ranWith,
          "Sales growth increased by 0% which lifts projected revenue across the horizon.")
    /\ SummaryContains(currentResult, ranWith,
          "Expenses are reduced by 20%, supporting stronger cash generation.")

\* The fraud sentence for a multiplier printed as text.
FraudTemplate(text) ==
    "Fraud sensitivity set to " \o text
        \o " changes how strongly fraud findings influence the unified risk index."

\* The fraud sensitivities of WordingValues with 2 decimals.
TwoDecimals(v) ==
    CASE v = 500 -> "0.50"
      [] v = 1000 -> "1.00"
      [] v = 1254 -> "1.25"

\* C18: when fraud_sensitivity differs from 1.0 the explanation contains one
\* fraud sentence, which states the multiplier with 2 decimals and is the same
\* template above and below 1.0; when fraud_sensitivity is 1.0 there is no
\* fraud sentence.
C18_FraudSentence ==
    Ran =>
        LET parts == explanationParts(ranWith)
            fraud == {i \in 1..Len(parts) :
                        parts[i] \in {FraudTemplate(t) : t \in {"0.50", "1.00", "1.25"}}}
        IN  IF ranWith.fraud_sensitivity /= 1000
            THEN /\ Cardinality(fraud) = 1
                 /\ SummaryContains(currentResult, ranWith,
                        FraudTemplate(TwoDecimals(ranWith.fraud_sensitivity)))
            ELSE /\ fraud = {}
                 /\ currentResult.explanation_summary \in {Join(parts), FallbackExplanation}

\* A run with fraud sensitivity 0.5 and one with 1.254 share the template.
C18_Witness ==
    /\ Ran
    /\ ranWith.fraud_sensitivity = 500
    /\ SummaryContains(currentResult, ranWith, FraudTemplate("0.50"))
    /\ SummaryContains(runLocalSimulation([ranWith EXCEPT !.fraud_sensitivity = 1254]),
                       [ranWith EXCEPT !.fraud_sensitivity = 1254], FraudTemplate("1.25"))

\* The three levers whose risk weight is applied to (lever - 1).
RiskLevers ==
    {"supplier_delay_factor", "reorder_threshold_multiplier", "expense_growth_multiplier"}

\* The levers p with the lever key set back to 1.0.
AtNeutral(p, key) == [p EXCEPT ![key] = 1000]

\* The raw risk of p is inside [0,100], so the clamp leaves it alone.
RawRiskUnclamped(p) == RiskFormula(p) >= 0 /\ RiskFormula(p) <= 100 * RiskUnit

\* C19 as claimed: with the other inputs fixed, a run with supplier_delay_factor
\* < 1 never has a higher risk_index than the run with the lever at 1, the
\* same for reorder_threshold_multiplier and expense_growth_multiplier, and
\* the risk_index is strictly lower whenever neither raw risk is clamped.
C19_LowerLeverLowerRisk ==
    Ran =>
        \A key \in RiskLevers :
            (ranWith[key] < 1000) =>
                LET other == runLocalSimulation(AtNeutral(ranWith, key))
                IN  /\ currentResult.risk_index <= other.risk_index
                    /\ (RawRiskUnclamped(ranWith) /\ RawRiskUnclamped(AtNeutral(ranWith, key)))
                          => currentResult.risk_index < other.risk_index

\* C19 as amended: the reported risk_index is never higher; whenever neither
\* raw risk is clamped the risk before rounding to 1 decimal is strictly
\* lower, and the reported risk_index is strictly lower when the two raw
\* risks differ by at least 0.1.
C19_LowerLeverNotHigherRisk ==
    Ran =>
        \A key \in RiskLevers :
            (ranWith[key] < 1000) =>
                LET other == runLocalSimulation(AtNeutral(ranWith, key))
                IN  /\ currentResult.risk_index <= other.risk_index
                    /\ (RawRiskUnclamped(ranWith) /\ RawRiskUnclamped(AtNeutral(ranWith, key)))
                          => /\ riskIndex(ranWith) < riskIndex(AtNeutral(ranWith, key))
                             /\ (RiskFormula(AtNeutral(ranWith, key)) - RiskFormula(ranWith)
                                    >= RiskUnit \div 10)
                                  => currentResult.risk_index < other.risk_index

\* A run with supplier delay 0.999 and no clamped raw risk, whose reported
\* risk_index equals the one of the run with the lever at 1.0 (5.96 and 6
\* both print as 6.0).
C19_Witness ==
    /\ Ran
    /\ ranWith.supplier_delay_factor = 999
    /\ RawRiskUnclamped(ranWith)
    /\ RawRiskUnclamped(AtNeutral(ranWith, "supplier_delay_factor"))
    /\ riskIndex(ranWith) < riskIndex(AtNeutral(ranWith, "supplier_delay_factor"))
    /\ currentResult.risk_index
          = runLocalSimulation(AtNeutral(ranWith, "supplier_delay_factor")).risk_index

\* Every lever of p is inside its slider range.
InSliderRange(p) ==
    /\ p.sales_growth_multiplier >= 800 /\ p.sales_growth_multiplier <= 1300
    /\ p.expense_growth_multiplier >= 800 /\ p.expense_growth_multiplier <= 1300
    /\ p.fraud_sensitivity >= 500 /\ p.fraud_sensitivity <= 1500
    /\ p.supplier_delay_factor >= 800 /\ p.supplier_delay_factor <= 1500
    /\ p.reorder_threshold_multiplier >= 500 /\ p.reorder_threshold_multiplier <= 1500

\* C20: for the panel's baseline (health 75, expense 50000, fraud 10%) and
\* levers inside the slider ranges, the upper risk clamp and both health
\* clamps never bind: raw risk is below 100 and base + health_delta is
\* strictly between 0 and 100, so delta_from_base is the unclamped
\* health_delta rounded to 1 decimal.
C20_SliderClampsIdle ==
    (/\ Ran
     /\ InSliderRange(ranWith)
     /\ baseResult.metadata = [base_health_score  |-> 75,
                               base_expense_total |-> 50000,
                               fraud_rate_percent |-> 10]) =>
        /\ rawRisk(ranWith) < 100 * RiskUnit
        /\ 75 * HealthUnit + healthDelta(ranWith) > 0
        /\ 75 * HealthUnit + healthDelta(ranWith) < 100 * HealthUnit
        /\ currentResult.delta_from_base % (HealthUnit \div 10) = 0
        /\ Abs(currentResult.delta_from_base - healthDelta(ranWith)) <= HealthUnit \div 20
        /\ Abs(currentResult.delta_from_base - (HealthFormula(ranWith) - 75 * HealthUnit))
              <= HealthUnit \div 20

\* The run at the slider ends that give the highest health: sales 1.3,
\* expense 0.8, fraud 0.5, supplier delay 0.8, reorder 0.5 (health 94.9,
\* the raw risk of -29.5 clamped to 0).
C20_Witness ==
    /\ Ran
    /\ ranWith = [sales_growth_multiplier      |-> 1300,
                  expense_growth_multiplier    |-> 800,
                  fraud_sensitivity            |-> 500,
                  supplier_delay_factor        |-> 800,
                  reorder_threshold_multiplier |-> 500]
    /\ currentResult.new_health_score = 949 * (HealthUnit \div 10)
    /\ currentResult.delta_from_base = 199 * (HealthUnit \div 10)

\* C21: with the baseline fraud rate >= 0, of two runs that differ in one
\* lever only, the run with the larger sales_growth_multiplier has no lower
\* new_health_score, and the run with the larger expense_growth_multiplier,
\* supplier_delay_factor, reorder_threshold_multiplier or fraud_sensitivity
\* has no higher new_health_score.  The earlier run is the one on display,
\* the later one the run of the levers as they are set now.
C21_HealthMonotone ==
    (Ran /\ baseFraud >= 0) =>
        \A key \in Keys :
            (SameExcept(params, ranWith, key) /\ params[key] >= ranWith[key]) =>
                LET later == runLocalSimulation(params)
                IN  IF key = "sales_growth_multiplier"
                    THEN later.new_health_score >= currentResult.new_health_score
                    ELSE later.new_health_score <= currentResult.new_health_score

\* After a run whose raw risk is clamped to 0, only the supplier delay was
\* raised, and the run of the levers as set now has a strictly lower health
\* with the risk still clamped to 0.
C21_Witness ==
    /\ Ran
    /\ SameExcept(params, ranWith, "supplier_delay_factor")
    /\ params.supplier_delay_factor > ranWith.supplier_delay_factor
    /\ rawRisk(params) < 0
    /\ runLocalSimulation(params).new_health_score < currentResult.new_health_score

\* C22: a run with all five levers at their default 1.0 yields a result whose
\* health score, risk index, projected cash and revenue forecast equal those
\* of the baseline result shown before any run, so the displayed
\* "revenue vs base" delta is 0 after such a run.
C22_DefaultRunShowsBaselineFigures ==
    (Ran /\ ranWith = DEFAULT_PARAMS) =>
        /\ activeResult.new_health_score = baseResult.new_health_score
        /\ activeResult.risk_index = baseResult.risk_index
        /\ activeResult.projected_cash = baseResult.projected_cash
        /\ activeResult.revenue_forecast = baseResult.revenue_forecast
        /\ revenueDelta = 0

\* What one step of the panel may do: a step that changes the levers changes
\* one lever and leaves the current result and the loading flag alone; a step
\* that changes the current result leaves the levers alone, stores the result
\* computed from them and ends with loading false.
PanelStep ==
    /\ (params' /= params) =>
          /\ \E key \in Keys : SameExcept(params', params, key)
          /\ currentResult' = currentResult
          /\ loading' = loading
    /\ (currentResult' /= currentResult) =>
          /\ params' = params
          /\ currentResult' = runLocalSimulation(params)
          /\ loading' = FALSE

\* C23: changing one lever changes only that lever's value (the other four
\* levers, the current result and the loading flag are unchanged), so the
\* result on display is the baseline result until the first Run and
\* afterwards the result computed from the lever values at the most recent
\* Run, and loading is false after every Run.
C23_LeverChangeFrame ==
    /\ [][PanelStep]_vars
    /\ [](/\ (~Ran) => (currentResult = Null /\ activeResult = baseResult)
          /\ Ran => activeResult = runLocalSimulation(ranWith)
          /\ Ran => ~loading)

\* A run with raised sales is on display while the sales lever has since been
\* set back: the display still shows the result of the levers of the run, not
\* of the levers as they are set now.
C23_Witness ==
    /\ Ran
    /\ ranWith.sales_growth_multiplier = 1200
    /\ params = [ranWith EXCEPT !.sales_growth_multiplier = 1000]
    /\ activeResult = runLocalSimulation(ranWith)
    /\ activeResult /= runLocalSimulation(params)
    /\ ~loading

(***************************************************************************)
(* Properties of services/api.ts.                                          *)
(***************************************************************************)

\* The call of fn ends in this step.
CallSettles(fn) == calls[fn].state = "pending" /\ calls'[fn].state /= "pending"

\* What the step that ends a call does, by the response the call got.
SettleStep ==
    \A fn \in Fns :
        CallSettles(fn) =>
            LET call == calls'[fn]
            IN  IF call.res.status = 401
                THEN /\ localStorage'.business_ai_token = Nothing
                     /\ localStorage'.business_ai_user = Nothing
                     /\ location' = "/login"
                     /\ call.state = "rejected"
                     /\ call.message = "UNAUTHORIZED"
                ELSE /\ localStorage'.business_ai_token = localStorage.business_ai_token
                     /\ localStorage'.business_ai_user = localStorage.business_ai_user
                     /\ (call.res /= NoResponse /\ ~ok(call.res)) =>
                            (call.state = "rejected" /\ call.data = "")

\* C24: for each of api, uploadCsv and report.pdf, when the response status
\* is 401 the stored token and the stored user are both removed, the browser
\* is sent to /login and the call rejects with UNAUTHORIZED; for every other
\* response (success or non-401 failure) the stored token and user are left
\* unchanged, and a non-401 failure rejects with an error and returns no data.
C24_UnauthorizedClearsSession == [][SettleStep]_vars

\* An upload sent with the stored token was answered 401 and the credentials
\* are gone, after a report download sent with the same token had failed with
\* 500 and a call of api had succeeded.
C24_Witness ==
    /\ calls["uploadCsv"].authorization = Some("Bearer token-1")
    /\ calls["uploadCsv"].res.status = 401
    /\ calls["uploadCsv"].state = "rejected"
    /\ calls["uploadCsv"].message = "UNAUTHORIZED"
    /\ localStorage.business_ai_token = Nothing
    /\ localStorage.business_ai_user = Nothing
    /\ location = "/login"
    /\ calls["report.pdf"].authorization = Some("Bearer token-1")
    /\ calls["report.pdf"].res.status = 500
    /\ calls["report.pdf"].state = "rejected"
    /\ calls["report.pdf"].message = "Internal Server Error"
    /\ calls["api"].state = "resolved"

(***************************************************************************)
(* Properties of the Revenue Intelligence module.                          *)
(***************************************************************************)

\* The requests of some load settle, or some load ends, in this step.
LoadProgress(i) ==
    /\ i <= Len(revenueIntelligence.loads)
    /\ revenueIntelligence'.loads[i] /= revenueIntelligence.loads[i]
    /\ revenueIntelligence'.loads[i].mounted = revenueIntelligence.loads[i].mounted

\* What a step may do to revenue, risk and error.
InsightStep ==
    LET old == revenueIntelligence
        new == revenueIntelligence'
    IN  \* the component is remounted with fresh state, or
        \/ (~old.mounted /\ new.mounted)
        \* the insights are set together from one load whose requests have
        \* both succeeded and whose effect has not been cleaned up, or
        \/ /\ (new.revenue /= old.revenue \/ new.risk /= old.risk)
           /\ new.error = old.error
           /\ \E i \in 1..Len(old.loads) :
                 /\ ~old.loads[i].settled /\ new.loads[i].settled
                 /\ old.loads[i].mounted
                 /\ new.loads[i].rev.state = "fulfilled"
                 /\ new.loads[i].uri.state = "fulfilled"
                 /\ new.revenue = Some(new.loads[i].rev.value)
                 /\ new.risk = Some(new.loads[i].uri.value)
        \* only the error is set, by a load one of whose requests failed and
        \* whose effect has not been cleaned up, or
        \/ /\ new.error /= old.error
           /\ new.revenue = old.revenue /\ new.risk = old.risk
           /\ \E i \in 1..Len(old.loads) :
                 /\ ~old.loads[i].settled /\ new.loads[i].settled
                 /\ old.loads[i].mounted
                 /\ \/ new.loads[i].rev.state = "rejected"
                    \/ new.loads[i].uri.state = "rejected"
        \* nothing of the three changes.
        \/ /\ new.revenue = old.revenue /\ new.risk = old.risk
           /\ new.error = old.error

\* A completion for an effect that has been cleaned up (unmount or token
\* change) updates nothing.
LateCompletionStep ==
    \A i \in 1..Len(revenueIntelligence.loads) :
        (LoadProgress(i) /\ ~revenueIntelligence.loads[i].mounted) =>
            /\ revenueIntelligence'.revenue = revenueIntelligence.revenue
            /\ revenueIntelligence'.risk = revenueIntelligence.risk
            /\ revenueIntelligence'.error = revenueIntelligence.error

\* C25: the revenue and risk insights are set together or not at all: they
\* are set only after both requests of a load succeed; if either request
\* fails only the error is set and both insights keep their value; no request
\* is started without a token; and a completion (success or failure) that
\* arrives after unmount or after the token changed updates no state.
C25_InsightsSetTogether ==
    /\ [][InsightStep /\ LateCompletionStep]_vars
    /\ [](/\ (revenueIntelligence.revenue = Nothing) <=> (revenueIntelligence.risk = Nothing)
          /\ \A i \in 1..Len(revenueIntelligence.loads) :
                LET l == revenueIntelligence.loads[i]
                IN  (l.rev.state /= "none" \/ l.uri.state /= "none") => Truthy(l.token))

\* The token changed while the first load was in flight; the first load then
\* succeeded with the values 1 and 1 and the second with 2 and 2, and the
\* state holds the values of the second load and no error.
C25_Witness ==
    /\ Len(revenueIntelligence.loads) = 2
    /\ revenueIntelligence.mounted
    /\ ~revenueIntelligence.loads[1].mounted
    /\ revenueIntelligence.loads[1].token /= revenueIntelligence.loads[2].token
    /\ revenueIntelligence.loads[1].settled
    /\ revenueIntelligence.loads[1].rev.state = "fulfilled"
    /\ revenueIntelligence.loads[1].rev.value = 1
    /\ revenueIntelligence.loads[1].uri.state = "fulfilled"
    /\ revenueIntelligence.loads[1].uri.value = 1
    /\ revenueIntelligence.loads[2].settled
    /\ revenueIntelligence.revenue = Some(2)
    /\ revenueIntelligence.risk = Some(2)
    /\ revenueIntelligence.error = Nothing

(***************************************************************************)
(* Properties of the Products page.                                        *)
(***************************************************************************)

\* The effect of the mounted page (the latest one).
CurrentEffect == productsPage.effects[Len(productsPage.effects)]

\* The request of an effect whose page has unmounted settles in this step.
LateProductsCompletion(i) ==
    /\ i <= Len(productsPage.effects)
    /\ ~productsPage.effects[i].isMounted
    /\ productsPage.effects[i].request.state = "pending"
    /\ productsPage'.effects[i].request.state /= "pending"

\* C26: loading is true from mount until the /products request settles and
\* is false once it has settled while the page is mounted; on success the
\* product list is set and error stays null, on failure error is set and the
\* product list stays empty; a completion that arrives after the page has
\* unmounted changes none of products, error and loading.
C26_ProductsLifecycle ==
    /\ [](productsPage.mounted =>
            LET r == CurrentEffect.request
            IN  /\ (r.state = "pending") =>
                    /\ productsPage.loading
                    /\ productsPage.products = <<>>
                    /\ productsPage.error = Nothing
                /\ (r.state = "fulfilled") =>
                    /\ ~productsPage.loading
                    /\ productsPage.products = r.data
                    /\ productsPage.error = Nothing
                /\ (r.state = "rejected") =>
                    /\ ~productsPage.loading
                    /\ productsPage.products = <<>>
                    /\ productsPage.error /= Nothing
                    /\ productsPage.error[1] /= "")
    /\ [][\A i \in 1..Len(productsPage.effects) :
            LateProductsCompletion(i) =>
                /\ productsPage'.products = productsPage.products
                /\ productsPage'.error = productsPage.error
                /\ productsPage'.loading = productsPage.loading]_vars

\* The page was unmounted while its first request was in flight and mounted
\* again; the first request then succeeded with two products, and the page
\* still shows the loading state of its second request.
C26_Witness ==
    /\ Len(productsPage.effects) = 2
    /\ productsPage.mounted
    /\ ~productsPage.effects[1].isMounted
    /\ productsPage.effects[1].request.state = "fulfilled"
    /\ Len(productsPage.effects[1].request.data) = 2
    /\ productsPage.effects[2].request.state = "pending"
    /\ productsPage.loading
    /\ productsPage.products = <<>>

(***************************************************************************)
(* Properties of the list of vendors.                                      *)
(***************************************************************************)

\* The rows the page read (none if the item is missing or not JSON).
StoredRows ==
    LET raw == localStorage.lucent_inventory_data_rows_v1
    IN  IF raw = Nothing \/ ~raw[1].valid THEN <<>> ELSE raw[1].rows

\* str has no white space at either end.
IsTrimmed(str) ==
    str = <<>> \/ (Head(str) \notin Whitespace /\ str[Len(str)] \notin Whitespace)

\* The rows whose vendor, without the white space around it, is name.
RowsOf(name) ==
    { j \in 1..Len(StoredRows) :
        /\ StoredRows[j].vendor /= Nothing
        /\ trim(StoredRows[j].vendor[1]) = name }

\* The first of a non-empty set of row numbers.
First(S) == CHOOSE j \in S : \A k \in S : j <= k

\* C27: for any stored inventory rows, every vendor computed by the Vendors
\* page has an integer rating in [20,100]; vendor names are distinct, trimmed
\* and non-empty (rows with a missing or blank vendor produce no vendor, every
\* other row's vendor is listed); and ids are 1..n in order of first
\* appearance.
C27_VendorsWellFormed ==
    vendorsPage.mounted =>
        LET vs == vendorsPage.vendors
        IN  /\ \A i \in 1..Len(vs) :
                /\ vs[i].rating % RatingUnit = 0
                /\ vs[i].rating >= 20 * RatingUnit
                /\ vs[i].rating <= 100 * RatingUnit
                /\ vs[i].name /= <<>>
                /\ IsTrimmed(vs[i].name)
                /\ RowsOf(vs[i].name) /= {}
                /\ vs[i].id = i
            /\ \A i, j \in 1..Len(vs) : (i /= j) => vs[i].name /= vs[j].name
            /\ \A i, j \in 1..Len(vs) :
                  (i < j) => First(RowsOf(vs[i].name)) < First(RowsOf(vs[j].name))
            /\ \A j \in 1..Len(StoredRows) :
                  LET v == StoredRows[j].vendor
                  IN  IF v = Nothing \/ trim(v[1]) = <<>>
                      THEN \A i \in 1..Len(vs) : j \notin RowsOf(vs[i].name)
                      ELSE \E i \in 1..Len(vs) : vs[i].name = trim(v[1])

\* Eight rows of vendor A with quantity 50: one vendor, whose rating
\* 3 + 1.6 + 0.5 = 5.1 is limited to 5 and shown as 100.
C27_Witness ==
    /\ vendorsPage.mounted
    /\ StoredRows = Copies([vendor |-> Some(<<"A">>), quantity |-> Some(50)], 8)
    /\ Len(vendorsPage.vendors) = 1
    /\ vendorsPage.vendors[1].rating = 100 * RatingUnit
    /\ ~vendorsPage.loading

====
